---- MODULE Spec2Model ----
(***************************************************************************)
(* Model of backend/app.py and backend/models.py: the provider-fallback    *)
(* caller generate_response and the POST /chat handler over the Chat and   *)
(* Message tables.                                                         *)
(*                                                                         *)
(* Strings are sequences of tokens.  A token is one character (" " is the  *)
(* only whitespace character used) or a fixed literal of the program kept  *)
(* whole.  Provider texts are drawn over the alphabet Chars, so a provider *)
(* never answers with the program's own fixed unavailability literal.      *)
(* Python's None is the record None; a str value s is Str(s).              *)
(***************************************************************************)
EXTENDS Integers, Sequences, FiniteSets, TLC

VARIABLES
    env,        \* process environment: the three switches generate_response reads
    gpc,        \* position of the generate_response invocation (SpecGen)
    gmsg,       \* its argument user_message
    pOut,       \* what the primary provider does in this invocation if it is called
    sOut,       \* what the secondary provider does in this invocation if it is called
    calls,      \* outbound calls made by the invocation, in order
    warnings,   \* warnings logged by the invocation, in order
    ret,        \* how the invocation ended: NoRet, a returned string, or a raise
    chats,      \* table chats, in commit order; req is history: the request that committed the row
    messages,   \* table messages, in commit order; req is history, as in chats
    reqs        \* POST /chat requests: position, locals, response

vars == <<env, gpc, gmsg, pOut, sOut, calls, warnings, ret, chats, messages, reqs>>
genVars == <<gpc, gmsg, pOut, sOut, calls, warnings, ret>>
chatVars == <<chats, messages, reqs>>

----------------------------------------------------------------------------
(* Bounds of the model *)

MaxText == 2        \* longest provider text
MaxChoices == 1     \* longest "choices" list of a primary response body
NumReq == 2         \* POST /chat requests issued (each may run concurrently)

----------------------------------------------------------------------------
(* Strings *)

Chars == {" ", "a"}

RECURSIVE TextsUpTo(_)
TextsUpTo(n) ==
    IF n = 0 THEN {<<>>}
    ELSE LET shorter == TextsUpTo(n - 1)
         IN  shorter \cup {Append(t, c) : t \in {u \in shorter : Len(u) = n - 1}, c \in Chars}

IsSpace(c) == c = " "

RECURSIVE LStrip(_)
LStrip(s) == IF s # <<>> /\ IsSpace(Head(s)) THEN LStrip(Tail(s)) ELSE s

RECURSIVE RStrip(_)
RStrip(s) ==
    IF s # <<>> /\ IsSpace(s[Len(s)]) THEN RStrip(SubSeq(s, 1, Len(s) - 1)) ELSE s

\* str.strip(): leading and trailing whitespace removed
Strip(s) == RStrip(LStrip(s))

\* s[:n]
Prefix(s, n) == SubSeq(s, 1, IF Len(s) < n THEN Len(s) ELSE n)

None == [isNone |-> TRUE]
Str(s) == [isNone |-> FALSE, s |-> s]

SYSTEM_INSTRUCTIONS ==
    << "You are a friendly AI assistant like ChatGPT.\nRules:\n- Give clean, well-spaced answers\n- Use bullet points or tables when useful\n- Do NOT use # symbols\n- Keep answers clear and readable\n- Be concise and helpful\n" >>

build_prompt(user_message) ==
    SYSTEM_INSTRUCTIONS \o << "\n\nUser:\n" >> \o user_message

UNAVAILABLE ==
    << "All AI providers are currently unavailable. Please try again later." >>

----------------------------------------------------------------------------
(* The environment and the user's input *)

\* os.getenv(k) is truthy: the variable is set and not empty.  HAS_GENAI is
\* whether the optional import at start-up succeeded.
Envs == [OPENROUTER_API_KEY : BOOLEAN, GEMINI_API_KEY : BOOLEAN, HAS_GENAI : BOOLEAN]

UserMessages == {<<>>, <<"a", " ">>}

----------------------------------------------------------------------------
(* What a provider can do when called *)

NotCalled == [kind |-> "notcalled"]

Texts == TextsUpTo(MaxText)

\* one element of data["choices"]: no "message" key, "content": null, or a text
ChoicesOver(T) ==
    {[kind |-> "nomessage"], [kind |-> "nullcontent"]}
        \cup {[kind |-> "text", content |-> t] : t \in T}

RECURSIVE ListsUpTo(_, _)
ListsUpTo(S, n) ==
    IF n = 0 THEN {<<>>}
    ELSE LET shorter == ListsUpTo(S, n - 1)
         IN  shorter \cup {Append(l, x) : l \in {u \in shorter : Len(u) = n - 1}, x \in S}

\* the "choices" member of a JSON object: absent, null, or a list
ChoicesMembersOver(T, n) ==
    {[kind |-> "absent"], [kind |-> "null"]}
        \cup {[kind |-> "list", items |-> l] : l \in ListsUpTo(ChoicesOver(T), n)}

\* a response body: not JSON; a JSON number, boolean or null; a JSON array (or
\* string), which may or may not hold "choices" as a member; a JSON object
BodiesOver(T, n) ==
    {[shape |-> "nonjson"], [shape |-> "number"]}
        \cup {[shape |-> "array", has |-> b] : b \in BOOLEAN}
        \cup {[shape |-> "object", choices |-> c] : c \in ChoicesMembersOver(T, n)}

Statuses == {200, 500}

\* requests.post(...): raises (timeout, network failure) or yields a response
PrimaryOutcomesOver(T, n) ==
    {[kind |-> "timeout"], [kind |-> "network"]}
        \cup {[kind |-> "response", status |-> st, body |-> b] :
                st \in Statuses, b \in BodiesOver(T, n)}

\* resp.candidates[0].output: raises, is None, or is a str
CandidateOutputsOver(T) == {[kind |-> "raises"], None} \cup {Str(t) : t \in T}

\* genai.Client(...) raises; generate_content(...) raises; or a response whose
\* .text is None or a str
SecondaryOutcomesOver(T) ==
    {[kind |-> "client_error"], [kind |-> "call_error"]}
        \cup {[kind |-> "response", text |-> x, output |-> o] :
                x \in {None} \cup {Str(t) : t \in T}, o \in CandidateOutputsOver(T)}

PrimaryOutcomes == PrimaryOutcomesOver(Texts, MaxChoices)
SecondaryOutcomes == SecondaryOutcomesOver(Texts)

----------------------------------------------------------------------------
(* generate_response *)

\* How a block of statements ends: a return statement, an exception leaving
\* it, or its last statement (control falls through to what follows).
Return(v, c, w) == [kind |-> "return", value |-> v, calls |-> c, warnings |-> w]
Raise(c, w) == [kind |-> "raise", value |-> <<>>, calls |-> c, warnings |-> w]
Fall(c, w) == [kind |-> "fall", value |-> <<>>, calls |-> c, warnings |-> w]

PrimaryCall(prompt) == [provider |-> "primary", prompt |-> prompt]
SecondaryCall(prompt) == [provider |-> "secondary", prompt |-> prompt]

\* a variant that returns the text as received
FirstChoiceTextUntrimmed(items, c) ==
    IF items[1].kind = "text" THEN Return(items[1].content, c, <<>>)
    ELSE Raise(c, <<>>)

\* data["choices"][0]["message"]["content"].strip()
FirstChoiceText(items, c) ==
    IF items[1].kind = "text" THEN Return(Strip(items[1].content), c, <<>>)
    ELSE Raise(c, <<>>)

\* a variant that posts once more after a non-200 status
OpenRouterTryTwice(prompt, p) ==
    LET c == <<PrimaryCall(prompt)>>
    IN  IF p.kind # "response" THEN Raise(c, <<>>)
        ELSE IF p.status = 200 THEN
            LET data == p.body
            IN  IF data.shape \in {"nonjson", "number"} THEN Raise(c, <<>>)
                ELSE IF data.shape = "array" THEN
                    (IF data.has THEN Raise(c, <<>>) ELSE Fall(c, <<>>))
                ELSE IF data.choices.kind = "absent" THEN Fall(c, <<>>)
                ELSE IF data.choices.kind = "null" THEN Raise(c, <<>>)
                ELSE IF Len(data.choices.items) > 0
                     THEN (IF data.choices.items[1].kind = "text"
                           THEN Return(Strip(data.choices.items[1].content), c, <<>>)
                           ELSE Raise(c, <<>>))
                     ELSE Fall(c, <<>>)
        ELSE Raise(c \o c, <<"OpenRouter API error">>)

\* the body of the first try block
OpenRouterTry(prompt, p) ==
    LET c == <<PrimaryCall(prompt)>>
    IN  IF p.kind # "response" THEN Raise(c, <<>>)
        ELSE IF p.status = 200 THEN
            LET data == p.body
            IN  IF data.shape \in {"nonjson", "number"} THEN Raise(c, <<>>)
                ELSE IF data.shape = "array" THEN
                    (IF data.has THEN Raise(c, <<>>) ELSE Fall(c, <<>>))
                ELSE IF data.choices.kind = "absent" THEN Fall(c, <<>>)
                ELSE IF data.choices.kind = "null" THEN Raise(c, <<>>)
                ELSE IF Len(data.choices.items) > 0
                     THEN FirstChoiceText(data.choices.items, c)
                     ELSE Fall(c, <<>>)
        ELSE Raise(c, <<"OpenRouter API error">>)

\* a variant without the except clause: the exception leaves the function
OpenRouterStepUncaught(prompt, p) == OpenRouterTry(prompt, p)

\* try: ... except Exception: warning
OpenRouterStep(prompt, p) ==
    LET r == OpenRouterTry(prompt, p)
    IN  IF r.kind = "raise"
        THEN Fall(r.calls, r.warnings \o <<"OpenRouter failed, falling back to Gemini">>)
        ELSE r

\* a variant that reads the primary field only
GeminiTextOnly(s) == s.text

\* text = getattr(resp, "text", None); if not text: text = resp.candidates[0].output
GeminiText(s) ==
    IF s.text = None \/ s.text = Str(<<>>) THEN s.output ELSE s.text

\* a variant that takes a missing text for the empty string
GeminiTryLenient(prompt, s) ==
    IF s.kind # "response"
    THEN Raise(IF s.kind = "client_error" THEN <<>> ELSE <<SecondaryCall(prompt)>>, <<>>)
    ELSE Return(IF s.text = None THEN <<>> ELSE Strip(s.text.s), <<SecondaryCall(prompt)>>, <<>>)

\* the body of the second try block
GeminiTry(prompt, s) ==
    IF s.kind # "response"
    THEN Raise(IF s.kind = "client_error" THEN <<>> ELSE <<SecondaryCall(prompt)>>, <<>>)
    ELSE LET c == <<SecondaryCall(prompt)>>
             text == GeminiText(s)
         IN  IF text \in {[kind |-> "raises"], None} THEN Raise(c, <<>>)
             ELSE Return(Strip(text.s), c, <<>>)

GeminiStep(prompt, s) ==
    LET r == GeminiTry(prompt, s)
    IN  IF r.kind = "raise"
        THEN Fall(r.calls, r.warnings \o <<"Gemini provider failed">>)
        ELSE r

\* what follows a block: nothing after a return or an escaping exception
Then(first, second) ==
    IF first.kind # "fall" THEN first
    ELSE [second EXCEPT !.calls = first.calls \o @, !.warnings = first.warnings \o @]

generate_response(e, user_message, p, s) ==
    LET prompt == build_prompt(user_message)
        primary == IF e.OPENROUTER_API_KEY THEN OpenRouterStep(prompt, p) ELSE Fall(<<>>, <<>>)
        secondary == IF e.HAS_GENAI /\ e.GEMINI_API_KEY
                     THEN GeminiStep(prompt, s) ELSE Fall(<<>>, <<>>)
    IN  Then(primary, Then(secondary, Return(UNAVAILABLE, <<>>, <<>>)))

----------------------------------------------------------------------------
(* One invocation of generate_response at a time *)

NoRet == [kind |-> "none"]

GenCall ==
    /\ gpc = "idle"
    /\ \E m \in UserMessages :
       \E p \in (IF env.OPENROUTER_API_KEY THEN PrimaryOutcomes ELSE {NotCalled}) :
       \E s \in (IF env.HAS_GENAI /\ env.GEMINI_API_KEY THEN SecondaryOutcomes ELSE {NotCalled}) :
          LET r == generate_response(env, m, p, s)
          IN  /\ gmsg' = m
              /\ pOut' = p
              /\ sOut' = s
              /\ calls' = r.calls
              /\ warnings' = r.warnings
              /\ ret' = [kind |-> r.kind, value |-> r.value]
              /\ gpc' = "done"
    /\ UNCHANGED <<env, chatVars>>

GenReset ==
    /\ gpc = "done"
    /\ gpc' = "idle"
    /\ gmsg' = <<>>
    /\ pOut' = NotCalled
    /\ sOut' = NotCalled
    /\ calls' = <<>>
    /\ warnings' = <<>>
    /\ ret' = NoRet
    /\ UNCHANGED <<env, chatVars>>

InitGen ==
    /\ env \in Envs
    /\ gpc = "idle"
    /\ gmsg = <<>>
    /\ pOut = NotCalled
    /\ sOut = NotCalled
    /\ calls = <<>>
    /\ warnings = <<>>
    /\ ret = NoRet
    /\ chats = <<>>
    /\ messages = <<>>
    /\ reqs = <<>>

NextGen == GenCall \/ GenReset

SpecGen == InitGen /\ [][NextGen]_vars

----------------------------------------------------------------------------
(* POST /chat *)

Requests == 1..NumReq

\* data.get("chat_id"): the key is absent, or an integer
NoChatId == [present |-> FALSE]
ChatId(n) == [present |-> TRUE, id |-> n]
ChatIds == {NoChatId} \cup {ChatId(n) : n \in 0..NumReq}

NoMessage == [present |-> FALSE]
Message(m) == [present |-> TRUE, s |-> m]

\* The message and the providers' behaviours a request may meet.  Under the
\* environment with both providers configured generate_response can end in
\* each of its three return statements; under any other environment it ends
\* in a subset of them, so the handler is run under the two extreme ones.
ChatMessages == {<<"a", " ">>}
ReplyTexts == {<<" ", "a">>}
ChatPrimaryOutcomes == PrimaryOutcomesOver(ReplyTexts, 1)
ChatSecondaryOutcomes == SecondaryOutcomesOver(ReplyTexts)
ChatEnvs == {e \in Envs : e.OPENROUTER_API_KEY = e.GEMINI_API_KEY /\ e.HAS_GENAI = e.GEMINI_API_KEY}

\* What a POST /chat request carries: a body that is not parseable JSON; no
\* JSON body at all; a falsy JSON value (null, 0, false, "", [], {}); a JSON
\* number or true; a JSON array (or string), which may or may not hold
\* "message" as a member; a JSON object with or without the key "message".
RequestBodies ==
    {[kind |-> "unparseable"], [kind |-> "absent"], [kind |-> "falsy"], [kind |-> "number"]}
        \cup {[kind |-> "array", has |-> b] : b \in BOOLEAN}
        \cup {[kind |-> "object", message |-> NoMessage, chat_id |-> ChatId(1)]}
        \cup {[kind |-> "object", message |-> Message(u), chat_id |-> c] :
                u \in ChatMessages, c \in ChatIds}

\* the body has no field "message"
LacksMessage(body) == body.kind # "object" \/ ~body.message.present

TitleLen == 200

NoChat == 0
NoBody == [kind |-> "none"]
NoResp == [none |-> TRUE]

\* user_message and chat are the handler's locals.  The rest is history:
\* lacking is the body of a request that had no field "message", asked the
\* Chat its chat_id named if that Chat existed when the handler looked it up,
\* failedAt the statement that raised.
NewReq ==
    [pc |-> "new", lacking |-> NoBody, asked |-> NoChat,
     user_message |-> <<>>, chat |-> NoChat,
     status |-> 0, resp |-> NoResp, failedAt |-> "none"]

ChatExists(id) == \E i \in 1..Len(chats) : chats[i].id = id

\* Chat.query.get(id): the Chat's id, or NoChat
QueryGet(id) == IF ChatExists(id) THEN id ELSE NoChat

\* the handler has returned: its locals are gone
Returned(q, status, resp, where) ==
    [q EXCEPT !.pc = "done", !.user_message = <<>>, !.chat = NoChat,
              !.status = status, !.resp = resp, !.failedAt = where]

\* return jsonify({"error": "Missing 'message'"}), 400
BadRequest(q) == Returned(q, 400, [error |-> "Missing 'message'"], "none")

\* a variant that leaves the status out of the return statement
InternalErrorDefaultStatus(q, where) ==
    Returned(q, 200, [error |-> "Internal server error"], where)

\* except Exception: ... return jsonify({"error": "Internal server error", ...}), 500
InternalError(q, where) == Returned(q, 500, [error |-> "Internal server error"], where)

\* return jsonify({"chat_id": chat.id, "response": ai_reply})
Ok(q, ai_reply) == Returned(q, 200, [chat_id |-> q.chat, response |-> ai_reply], "none")

\* request.get_json() raises: always on a body that does not parse; on a
\* request with no JSON body the framework, depending on its version, raises
\* (strict) or returns None
GetJsonRaises(body, strict) ==
    body.kind = "unparseable" \/ (body.kind = "absent" /\ strict)

\* data = request.get_json() or {}; "message" not in data: True, False or a
\* TypeError (a number has no members)
MessageNotIn(body) ==
    IF body.kind \in {"absent", "falsy"} THEN "true"
    ELSE IF body.kind = "number" THEN "raises"
    ELSE IF body.kind = "array" THEN (IF body.has THEN "false" ELSE "true")
    ELSE IF body.message.present THEN "false" ELSE "true"

\* a variant that never looks the chat up
ResolveChatAlwaysNew(chat_id) == NoChat

\* chat = Chat.query.get(chat_id) if chat_id else None
ResolveChat(chat_id) ==
    IF chat_id.present /\ chat_id.id # 0 THEN QueryGet(chat_id.id) ELSE NoChat

\* From the start of the handler to the lookup of the chat.  data["message"]
\* on an array or a string raises TypeError; the lookup is a query, which can
\* raise (ok is whether it did not).
ChatHandle(q, body, strict, ok) ==
    IF GetJsonRaises(body, strict) THEN InternalError(q, "get_json")
    ELSE IF MessageNotIn(body) = "raises" THEN InternalError(q, "message")
    ELSE IF MessageNotIn(body) = "true" THEN BadRequest(q)
    ELSE IF body.kind # "object" THEN InternalError(q, "message")
    ELSE IF body.chat_id.present /\ body.chat_id.id # 0 /\ ~ok
         THEN InternalError(q, "query")
    ELSE [q EXCEPT !.user_message = body.message.s,
                   !.chat = ResolveChat(body.chat_id),
                   !.pc = IF ResolveChat(body.chat_id) = NoChat THEN "create" ELSE "user"]

ChatReceive(r) ==
    /\ reqs[r].pc = "new"
    /\ \E body \in RequestBodies, strict \in BOOLEAN, ok \in BOOLEAN :
         LET q == [reqs[r] EXCEPT
                     !.lacking = IF LacksMessage(body) THEN body ELSE NoBody,
                     !.asked = IF ~LacksMessage(body) /\ body.chat_id.present
                                  /\ ChatExists(body.chat_id.id)
                               THEN body.chat_id.id ELSE NoChat]
         IN  reqs' = [reqs EXCEPT ![r] = ChatHandle(q, body, strict, ok)]
    /\ UNCHANGED <<chats, messages, env, genVars>>

\* chat = Chat(title=user_message[:200])
NewChat(r, user_message) ==
    [id |-> Len(chats) + 1, title |-> Prefix(user_message, TitleLen), req |-> r]

\* if not chat: create it; add; commit
ChatCreate(r) ==
    /\ reqs[r].pc = "create"
    /\ \E ok \in BOOLEAN :
         IF ok
         THEN /\ chats' = Append(chats, NewChat(r, reqs[r].user_message))
              /\ reqs' = [reqs EXCEPT ![r].chat = NewChat(r, reqs[r].user_message).id,
                                      ![r].pc = "user"]
         ELSE /\ reqs' = [reqs EXCEPT ![r] = InternalError(@, "create")]
              /\ UNCHANGED chats
    /\ UNCHANGED <<messages, env, genVars>>

\* db.session.add(Message(chat_id=..., role=..., content=...)); db.session.commit()
AddMessage(r, chat_id, role, content) ==
    Append(messages, [id |-> Len(messages) + 1, chat_id |-> chat_id, role |-> role,
                      content |-> content, req |-> r])

\* a variant that takes the chat id from the request instead of the Chat
UserMessageByRequestedId(r, q) == AddMessage(r, q.asked, "user", q.user_message)

UserMessage(r, q) == AddMessage(r, q.chat, "user", q.user_message)

ChatPersistUser(r) ==
    /\ reqs[r].pc = "user"
    /\ \E ok \in BOOLEAN :
         IF ok
         THEN /\ messages' = UserMessage(r, reqs[r])
              /\ reqs' = [reqs EXCEPT ![r].pc = "assistant"]
         ELSE /\ reqs' = [reqs EXCEPT ![r] = InternalError(@, "user")]
              /\ UNCHANGED messages
    /\ UNCHANGED <<chats, env, genVars>>

\* how generate_response(user_message) can end, over the providers' behaviours
GenerateOutcomes(user_message) ==
    {LET g == generate_response(env, user_message, p, s)
     IN  [kind |-> g.kind, value |-> g.value] :
        p \in ChatPrimaryOutcomes, s \in ChatSecondaryOutcomes}

AssistantMessage(r, q, ai_reply) == AddMessage(r, q.chat, "assistant", ai_reply)

\* ai_reply = generate_response(user_message); the assistant Message is added
\* and committed; the response is built.  Reading chat.id for the response
\* reloads the row after the commit, which can raise like any other query.
ChatAssistantTurn(r) ==
    /\ reqs[r].pc = "assistant"
    /\ \E g \in GenerateOutcomes(reqs[r].user_message) :
       \E committed \in BOOLEAN, reloaded \in BOOLEAN :
         LET q == reqs[r]
         IN  IF g.kind # "return"
             THEN /\ reqs' = [reqs EXCEPT ![r] = InternalError(q, "generate_response")]
                  /\ UNCHANGED messages
             ELSE IF ~committed
             THEN /\ reqs' = [reqs EXCEPT ![r] = InternalError(q, "assistant")]
                  /\ UNCHANGED messages
             ELSE /\ messages' = AssistantMessage(r, q, g.value)
                  /\ reqs' = [reqs EXCEPT ![r] =
                        IF reloaded THEN Ok(q, g.value) ELSE InternalError(q, "respond")]
    /\ UNCHANGED <<chats, env, genVars>>

Init ==
    /\ env \in ChatEnvs
    /\ gpc = "idle"
    /\ gmsg = <<>>
    /\ pOut = NotCalled
    /\ sOut = NotCalled
    /\ calls = <<>>
    /\ warnings = <<>>
    /\ ret = NoRet
    /\ chats = <<>>
    /\ messages = <<>>
    /\ reqs = [r \in Requests |-> NewReq]

Next ==
    \E r \in Requests :
        \/ ChatReceive(r)
        \/ ChatCreate(r)
        \/ ChatPersistUser(r)
        \/ ChatAssistantTurn(r)

Spec == Init /\ [][Next]_vars

----------------------------------------------------------------------------
(* What the providers did, read off their behaviour alone *)

\* HTTP 200 with a JSON object whose "choices" is a non-empty list
NonEmptyChoices(p) ==
    /\ p.kind = "response"
    /\ p.status = 200
    /\ p.body.shape = "object"
    /\ p.body.choices.kind = "list"
    /\ Len(p.body.choices.items) > 0

\* ... whose first choice carries a text
PrimaryReplied(p) == NonEmptyChoices(p) /\ p.body.choices.items[1].kind = "text"

PrimaryText(p) == p.body.choices.items[1].content

\* the secondary's answer: its primary field, or the nested field if that is
\* empty; it succeeded if there is one
SecondaryAnswer(s) ==
    IF s.kind # "response" THEN None
    ELSE IF s.text # None /\ s.text # Str(<<>>) THEN s.text
    ELSE IF s.output = [kind |-> "raises"] THEN None
    ELSE s.output

SecondarySucceeded(s) == SecondaryAnswer(s) # None

PrimaryConfigured == env.OPENROUTER_API_KEY
SecondaryConfigured == env.GEMINI_API_KEY /\ env.HAS_GENAI

CallsTo(provider) == {i \in 1..Len(calls) : calls[i].provider = provider}

PrimaryWarnings == {"OpenRouter API error", "OpenRouter failed, falling back to Gemini"}

IsString(v) == v = UNAVAILABLE \/ \A i \in 1..Len(v) : v[i] \in Chars

----------------------------------------------------------------------------
(* Claims about generate_response, under SpecGen *)

\* C1 as stated: whenever the primary is configured and answers HTTP 200 with
\* a non-empty choice list, the secondary is not called, and the result is the
\* trimmed text of the first choice.
C1_AsStated ==
    (gpc = "done" /\ PrimaryConfigured /\ NonEmptyChoices(pOut)) =>
        /\ CallsTo("secondary") = {}
        /\ PrimaryReplied(pOut) => ret = [kind |-> "return", value |-> Strip(PrimaryText(pOut))]

\* C1 as amended: whenever the primary is configured and answers HTTP 200 with
\* a non-empty choice list whose first choice carries a text, the result is
\* exactly that text trimmed and the secondary is not called, whether or not
\* it is configured.
C1_PrimaryReplyReturned ==
    (gpc = "done" /\ PrimaryConfigured /\ PrimaryReplied(pOut)) =>
        /\ ret = [kind |-> "return", value |-> Strip(PrimaryText(pOut))]
        /\ CallsTo("secondary") = {}

C1_Witness ==
    /\ gpc = "done"
    /\ PrimaryConfigured /\ SecondaryConfigured
    /\ PrimaryReplied(pOut) /\ PrimaryText(pOut) = <<" ", "a">>
    /\ SecondarySucceeded(sOut)
    /\ ret.value = <<"a">>
    /\ Len(calls) = 1

\* C2: when the primary is configured and its call fails (an exception, a
\* non-200 status or a malformed body) and the secondary is configured,
\* available and succeeds, the result is the secondary's trimmed text and
\* not the unavailability literal.
C2_FallbackToSecondary ==
    (gpc = "done" /\ PrimaryConfigured /\ ~PrimaryReplied(pOut)
        /\ SecondaryConfigured /\ SecondarySucceeded(sOut)) =>
        /\ ret = [kind |-> "return", value |-> Strip(SecondaryAnswer(sOut).s)]
        /\ ret.value # UNAVAILABLE

C2_Witness ==
    /\ gpc = "done"
    /\ PrimaryConfigured /\ pOut.kind = "response" /\ pOut.status = 500
    /\ SecondaryConfigured /\ sOut.kind = "response"
    /\ sOut.text = None /\ sOut.output = Str(<<"a", " ">>)
    /\ ret.value = <<"a">>

\* C3: the result is the unavailability literal exactly when each provider is
\* unconfigured (or unavailable) or was called and failed.
C3_UnavailableIffNoneSucceeded ==
    gpc = "done" =>
        /\ ret.kind = "return"
        /\ ret.value = UNAVAILABLE <=>
              /\ ~PrimaryConfigured \/ ~PrimaryReplied(pOut)
              /\ ~SecondaryConfigured \/ ~SecondarySucceeded(sOut)

C3_Witness ==
    /\ gpc = "done"
    /\ PrimaryConfigured /\ pOut.kind = "timeout"
    /\ SecondaryConfigured /\ sOut.kind = "response" /\ ~SecondarySucceeded(sOut)
    /\ Len(calls) = 2
    /\ ret.value = UNAVAILABLE

\* C4: every invocation ends by returning a string, whatever the
\* configuration and whatever the providers do; no exception leaves it.
C4_NeverRaises ==
    gpc = "done" => ret.kind = "return" /\ IsString(ret.value)

C4_Witness ==
    /\ gpc = "done"
    /\ PrimaryConfigured /\ pOut.kind = "network"
    /\ SecondaryConfigured /\ sOut.kind = "call_error"
    /\ ret.kind = "return"

\* C7 as stated: whenever the primary call was attempted and gave no reply, a
\* warning about the primary has been logged by the end of the invocation.
C7_AsStated ==
    (gpc = "done" /\ CallsTo("primary") # {} /\ ~PrimaryReplied(pOut)) =>
        \E i \in 1..Len(warnings) : warnings[i] \in PrimaryWarnings

\* C8: at most one call goes to each provider; the primary is called only if
\* its credential is configured, the secondary only if its credential is
\* configured and its library is available; no secondary call precedes a
\* primary call.
C8_CallDiscipline ==
    gpc = "done" =>
        /\ Cardinality(CallsTo("primary")) <= 1
        /\ Cardinality(CallsTo("secondary")) <= 1
        /\ CallsTo("primary") # {} => PrimaryConfigured
        /\ CallsTo("secondary") # {} => SecondaryConfigured
        /\ \A i \in CallsTo("secondary"), j \in CallsTo("primary") : j < i

C8_Witness ==
    /\ gpc = "done"
    /\ Len(calls) = 2
    /\ calls[1].provider = "primary" /\ calls[2].provider = "secondary"
    /\ pOut.kind = "response" /\ pOut.status = 500

----------------------------------------------------------------------------
(* Claims about POST /chat, under Spec *)

ChatsBy(r) == {i \in 1..Len(chats) : chats[i].req = r}
MessagesBy(r) == {i \in 1..Len(messages) : messages[i].req = r}
MessagesOf(id, role) ==
    {i \in 1..Len(messages) : messages[i].chat_id = id /\ messages[i].role = role}

\* C5 as stated: a request whose body has no field "message" is answered 400
\* and persists nothing.
C5_AsStated ==
    \A r \in Requests :
        (reqs[r].pc = "done" /\ reqs[r].lacking # NoBody) =>
            /\ reqs[r].status = 400
            /\ ChatsBy(r) = {} /\ MessagesBy(r) = {}

\* C6: a request answered 200 has committed exactly two Messages, the user's
\* and then the assistant's, both in the Chat whose id it returns, and the
\* response it returns is the assistant Message's content.  If its chat_id
\* was absent or named no Chat, it has created exactly one Chat, that one;
\* otherwise it has created none and the Chat is the one its chat_id named.
C6_TurnPersisted ==
    \A r \in Requests :
        reqs[r].status = 200 =>
            /\ Cardinality(MessagesBy(r)) = 2
            /\ \E u \in MessagesBy(r), a \in MessagesBy(r) :
                  /\ u < a
                  /\ messages[u].role = "user" /\ messages[a].role = "assistant"
                  /\ messages[u].chat_id = reqs[r].resp.chat_id
                  /\ messages[a].chat_id = reqs[r].resp.chat_id
                  /\ messages[a].content = reqs[r].resp.response
            /\ IF reqs[r].asked = NoChat
               THEN /\ Cardinality(ChatsBy(r)) = 1
                    /\ \A i \in ChatsBy(r) : chats[i].id = reqs[r].resp.chat_id
               ELSE /\ ChatsBy(r) = {}
                    /\ reqs[r].resp.chat_id = reqs[r].asked

C6_Witness ==
    \E r1 \in Requests, r2 \in Requests :
        /\ reqs[r1].status = 200 /\ reqs[r1].asked = NoChat
        /\ reqs[r2].status = 200 /\ reqs[r2].asked # NoChat
        /\ Len(chats) = 1 /\ Len(messages) = 4

FailedAfterUserMessage(q) ==
    q.pc = "done" /\ q.failedAt \in {"generate_response", "assistant", "respond"}

\* C9 as stated: a request that fails after its user Message was committed is
\* answered 500 "Internal server error"; the Chat and the user Message stay,
\* and there is no assistant Message of that request.
C9_AsStated ==
    \A r \in Requests :
        FailedAfterUserMessage(reqs[r]) =>
            /\ reqs[r].status = 500
            /\ reqs[r].resp = [error |-> "Internal server error"]
            /\ \E u \in MessagesBy(r) :
                  messages[u].role = "user" /\ ChatExists(messages[u].chat_id)
            /\ \A i \in MessagesBy(r) : messages[i].role # "assistant"

\* C9 as amended: a request that fails after its user Message was committed
\* is answered 500 "Internal server error"; the Chat and the user Message
\* stay.  There is no assistant Message of that request unless the exception
\* came after the assistant Message's commit, and then that Message stays too.
C9_NothingRolledBack ==
    \A r \in Requests :
        FailedAfterUserMessage(reqs[r]) =>
            /\ reqs[r].status = 500
            /\ reqs[r].resp = [error |-> "Internal server error"]
            /\ \E u \in MessagesBy(r) :
                  messages[u].role = "user" /\ ChatExists(messages[u].chat_id)
            /\ (\E i \in MessagesBy(r) : messages[i].role = "assistant")
                  <=> reqs[r].failedAt = "respond"

C9_Witness ==
    \E r \in Requests :
        /\ reqs[r].pc = "done" /\ reqs[r].failedAt = "assistant"
        /\ ChatsBy(r) # {}
        /\ Cardinality(MessagesBy(r)) = 1

\* C10: every Message references an existing Chat; in every Chat there are at
\* most as many assistant Messages as user Messages; and as many, when no
\* request is in flight and none has failed.
C10_MessagesPaired ==
    /\ \A i \in 1..Len(messages) : ChatExists(messages[i].chat_id)
    /\ \A c \in 1..Len(chats) :
          Cardinality(MessagesOf(chats[c].id, "assistant"))
              <= Cardinality(MessagesOf(chats[c].id, "user"))
    /\ (\A r \in Requests : reqs[r].pc \in {"new", "done"} /\ reqs[r].status # 500) =>
          \A c \in 1..Len(chats) :
              Cardinality(MessagesOf(chats[c].id, "assistant"))
                  = Cardinality(MessagesOf(chats[c].id, "user"))

\* two requests in the same Chat, both past their user Message, neither answered
C10_Witness ==
    \E r1 \in Requests, r2 \in Requests :
        /\ r1 # r2
        /\ reqs[r1].pc = "assistant" /\ reqs[r2].pc = "assistant"
        /\ reqs[r1].chat = reqs[r2].chat
        /\ Len(messages) = 2

====
